---- MODULE Spec2Model ----
(***************************************************************************)
(* Model of the astrometric-observation record codec of                    *)
(* src/getImages/ossos_scripts/mpc.py: the Record Writer (MPCWriter) with  *)
(* its discovery bookkeeping, and the Record Reader (MPCReader) with the   *)
(* line parser (Observation.from_string) and the comment dispatcher        *)
(* (MPCComment.from_string).                                               *)
(*                                                                         *)
(* Dates are Julian Days counted in half days, so that 2456000.5 is the    *)
(* integer 4912001 and the Modified Julian Day is the Julian Day minus     *)
(* 4800001 half days (2400000.5 days).                                     *)
(***************************************************************************)
EXTENDS Integers, Sequences, FiniteSets, TLC

\* ------------------------------------------------------------------ bounds
\* number of write() calls in one run of the writer
MaxWrites == 3
\* number of explicit flush() calls in one run of the writer
MaxFlushes == 2
\* number of distinct observation dates that records are drawn from
NumDates == 2
\* number of physical lines in the text that read() is given
MaxLines == 3
\* number of calls made on one survey comment (constructor and setters)
MaxCalls == 3
\* number of lines of the file MPCConverter.convert is given
MaxFileLines == 2
\* number of observers make_tnodb_header is given
MaxObservers == 3
\* number of convert() calls on one converter
MaxConverts == 2
\* number of setter and to_tnodb() calls on a parsed record
MaxEdits == 2
\* number of rows of the side table an Index is built from
MaxRows == 2
\* number of 10-character columns in one row of the side table
MaxColumns == 3

VARIABLES
    auto_flush,          \* MPCWriter.auto_flush
    auto_discovery,      \* MPCWriter.auto_discovery
    buffer,              \* MPCWriter.buffer: MJD key -> observation
    written,             \* MPCWriter._written_mpc_observations: list of JD
    discovery_written,   \* MPCWriter._discovery_written
    sink,                \* lines written to MPCWriter.filehandle, in order
    closed,              \* the file handle has been closed
    flush_raised,        \* the exception that left the last call on the writer
    writeLog,            \* the dates passed to write(), in call order
    nflush,              \* number of flush() calls so far (explicit or auto)
    nexplicit,           \* number of explicit flush() calls so far
    writesAtFirstFlush   \* write() calls before the first flush, 0 - 1
                         \* while flush() has not run

VARIABLES
    replace_provisional, \* MPCReader.replace_provisional is not None
    lines,               \* the physical lines read() has gone through
    mpc_observations,    \* the list read() is building
    next_comment,        \* the held comment of read()
    aborted,             \* an exception has left read()
    returned,            \* read() has returned its list
    outcomes             \* what Observation.from_string did with each line

VARIABLES
    comment_built,       \* OSSOSComment.__init__ has returned an object
    mag,                 \* OSSOSComment._mag
    photometry_note,     \* OSSOSComment._photometry_note
    mag_uncertainty,     \* OSSOSComment._mag_uncertainty
    astrometric_level,   \* OSSOSComment._astrometric_level
    last_call,           \* the last call on the comment and what it raised
    ncalls               \* number of calls on the comment so far

cvars == <<comment_built, mag, photometry_note, mag_uncertainty,
           astrometric_level, last_call, ncalls>>

VARIABLES
    input_line,          \* the data line given to Observation.from_string
    obsrec,              \* the record from_string built from input_line
    as_string,           \* obsrec.to_string(), or the exception it raised
    obsrec2,             \* the record from_string built from as_string
    pstep,               \* how far the round trip has gone
    obs_raised,          \* the exception that left the last call on obsrec
    nedits               \* number of setter and to_tnodb() calls on obsrec

pvars == <<input_line, obsrec, as_string, obsrec2, pstep, obs_raised, nedits>>

VARIABLES
    infile,              \* the lines of MPCConverter.mpc_file
    outfile,             \* what has been written to MPCConverter.outfile
    write_header,        \* MPCConverter.write_header
    convert_raised,      \* the exception that left the last convert()
    nconvert,            \* number of convert() calls so far
    header_observers,    \* observers= of the last make_tnodb_header call
    header_obs           \* the OBS line that call returned, after "OBS "

hvars == <<infile, outfile, write_header, convert_raised, nconvert,
           header_observers, header_obs>>

VARIABLES
    idx_rows,            \* the rows of the side table, cut into columns
    idx_built,           \* Index.__init__ has returned
    names,               \* Index.names: name -> canonical name
    index                \* Index.index: canonical name -> alias list

ivars == <<idx_rows, idx_built, names, index>>

rvars == <<replace_provisional, lines, mpc_observations, next_comment,
           aborted, returned, outcomes>>

wvars == <<auto_flush, auto_discovery, buffer, written, discovery_written,
           sink, closed, flush_raised, writeLog, nflush, nexplicit,
           writesAtFirstFlush>>

\* what the writer, the reader and the comment calls leave alone
notWriter == <<rvars, cvars, pvars, hvars, ivars>>
notReader == <<wvars, cvars, pvars, hvars, ivars>>
notComment == <<wvars, rvars, pvars, hvars, ivars>>
notParse == <<wvars, rvars, cvars, hvars, ivars>>
notConvert == <<wvars, rvars, cvars, pvars, ivars>>
notIndex == <<wvars, rvars, cvars, pvars, hvars>>

\* ------------------------------------------------------------ time keys
\* the observation dates of the records: 2456000.5, 2456001.0, ...
Dates == 4912001 .. (4912000 + NumDates)

\* Time.jd of an observation date
Jd(date) == date

\* Time.mjd of an observation date
Mjd(date) == date - 4800001

\* ------------------------------------------------------------ Discovery
DiscoveryMarks == {"*", "&", " "}

\* Discovery.is_discovery setter applied to a column-13 character or a bool
IsDiscoveryOf(v) == v \in {"*", "&", "TRUE"}

\* Discovery.is_initial_discovery setter
IsInitialOf(v) == v \in {"*", "TRUE"}

\* Discovery.__str__
DiscoveryStr(obs) ==
    IF obs.init THEN "*" ELSE IF obs.disc THEN "&" ELSE " "

\* Observation(...) as far as the writer reads it: null flag, discovery,
\* date, and whether the formatter renders it (a record with a magnitude and
\* no band makes Observation.__str__ raise MPCFieldFormatError)
NewObservation(id, date, null, mark, renders) ==
    [id |-> id, date |-> date, null |-> null,
     disc |-> IsDiscoveryOf(mark), init |-> IsInitialOf(mark),
     renders |-> renders]

\* ------------------------------------------------------------ MPCWriter
\* self.buffer[key] = mpc_observation
BufferPutFirstWins(buf, key, obs) ==
    [k \in (DOMAIN buf) \cup {key} |->
        IF k \in DOMAIN buf THEN buf[k] ELSE obs]

BufferPut(buf, key, obs) ==
    [k \in (DOMAIN buf) \cup {key} |-> IF k = key THEN obs ELSE buf[k]]

RECURSIVE SortDescending(_)
SortDescending(S) ==
    IF S = {} THEN <<>>
    ELSE LET m == CHOOSE x \in S : \A y \in S : x >= y
         IN  <<m>> \o SortDescending(S \ {m})

\* jds = self.buffer.keys(); jds.sort()
RECURSIVE SortedKeys(_)
SortedKeys(S) ==
    IF S = {} THEN <<>>
    ELSE LET m == CHOOSE x \in S : \A y \in S : x <= y
         IN  <<m>> \o SortedKeys(S \ {m})

\* the auto-discovery marking: obs.discovery = True
AutoMark(obs, autod, dw) ==
    IF autod /\ ~obs.null /\ ~dw
    THEN [obs EXCEPT !.disc = IsDiscoveryOf("TRUE"), !.init = IsInitialOf("TRUE")]
    ELSE obs

\* the continuation downgrade: obs.discovery.is_initial_discovery = False
DowngradeNever(obs, dw) == obs

Downgrade(obs, dw) ==
    IF obs.disc /\ dw THEN [obs EXCEPT !.init = IsInitialOf("FALSE")] ELSE obs

\* self._discovery_written after the discovery block
DiscoveryWrittenAfter(obs, dw) == IF obs.disc THEN TRUE ELSE dw

\* obs.date.jd not in self._written_mpc_observations
NotYetWrittenAlways(jd, wr) == TRUE

NotYetWritten(jd, wr) == \A i \in 1..Len(wr) : wr[i] # jd

\* line = self.formatter(obs): what the line shows of the record
Line(obs, flushno) ==
    [id |-> obs.id, date |-> obs.date, null |-> obs.null,
     mark |-> DiscoveryStr(obs), flush |-> flushno]

\* line = self.formatter(obs); self.filehandle.write(line + "\n"): the
\* exception the two statements raise, "none" if the line is written
WriteError(obs, isclosed) ==
    IF ~obs.renders THEN "MPCFieldFormatError"
    ELSE IF isclosed THEN "ValueError"
    ELSE "none"

\* MPCWriter._flush_observation on the record buffered under key
FlushObservation(st, key, autod, flushno, isclosed) ==
    LET obs0 == st.buffer[key]
        obs1 == AutoMark(obs0, autod, st.dw)
        obs2 == Downgrade(obs1, st.dw)
        dw2  == DiscoveryWrittenAfter(obs1, st.dw)
        emit == NotYetWritten(Jd(obs2.date), st.written)
        err  == IF emit THEN WriteError(obs2, isclosed) ELSE "none"
    IN  [buffer  |-> [st.buffer EXCEPT ![key] = obs2],
         dw      |-> dw2,
         written |-> IF emit THEN Append(st.written, Jd(obs2.date))
                     ELSE st.written,
         sink    |-> IF emit /\ err = "none"
                     THEN Append(st.sink, Line(obs2, flushno))
                     ELSE st.sink,
         raised  |-> err]

\* the loop of MPCWriter.flush over get_chronological_buffered_observations,
\* left by the first exception
RECURSIVE FlushLoop(_, _, _, _, _)
FlushLoop(st, keys, autod, flushno, isclosed) ==
    IF keys = <<>> \/ st.raised # "none" THEN st
    ELSE FlushLoop(FlushObservation(st, Head(keys), autod, flushno, isclosed),
                   Tail(keys), autod, flushno, isclosed)

\* self.filehandle.flush() after the loop
FileFlush(st, isclosed) ==
    IF st.raised = "none" /\ isclosed
    THEN [st EXCEPT !.raised = "ValueError"]
    ELSE st

\* MPCWriter.flush
FlushResult(buf, dw, wr, snk, autod, flushno, isclosed) ==
    FileFlush(FlushLoop([buffer |-> buf, dw |-> dw, written |-> wr,
                         sink |-> snk, raised |-> "none"],
                        SortedKeys(DOMAIN buf), autod, flushno, isclosed),
              isclosed)

\* MPCWriter.__init__
WriterInit ==
    /\ auto_flush \in BOOLEAN
    /\ auto_discovery \in BOOLEAN
    /\ buffer = <<>>
    /\ written = <<>>
    /\ discovery_written = FALSE
    /\ sink = <<>>
    /\ closed = FALSE
    /\ flush_raised = "none"
    /\ writeLog = <<>>
    /\ nflush = 0
    /\ nexplicit = 0
    /\ writesAtFirstFlush = 0 - 1

\* MPCWriter.write with auto_flush disabled
WriteBuffered(date, null, mark, renders) ==
    /\ ~auto_flush
    /\ Len(writeLog) < MaxWrites
    /\ buffer' = BufferPut(buffer, Mjd(date),
                           NewObservation(Len(writeLog) + 1, date, null, mark,
                                          renders))
    /\ flush_raised' = "none"
    /\ writeLog' = Append(writeLog, date)
    /\ UNCHANGED <<auto_flush, auto_discovery, written, discovery_written,
                   sink, closed, nflush, nexplicit, writesAtFirstFlush>>
    /\ UNCHANGED notWriter

\* the state self.flush() leaves behind
Flushed(r) ==
    /\ buffer' = r.buffer
    /\ discovery_written' = r.dw
    /\ written' = r.written
    /\ sink' = r.sink
    /\ flush_raised' = r.raised

\* MPCWriter.write with auto_flush enabled: the insert and the flush
WriteFlushed(date, null, mark, renders) ==
    /\ auto_flush
    /\ Len(writeLog) < MaxWrites
    /\ Flushed(FlushResult(BufferPut(buffer, Mjd(date),
                                     NewObservation(Len(writeLog) + 1, date,
                                                    null, mark, renders)),
                           discovery_written, written, sink,
                           auto_discovery, nflush + 1, closed))
    /\ writeLog' = Append(writeLog, date)
    /\ nflush' = nflush + 1
    /\ writesAtFirstFlush' =
          IF writesAtFirstFlush < 0 THEN Len(writeLog) + 1
          ELSE writesAtFirstFlush
    /\ UNCHANGED <<auto_flush, auto_discovery, closed, nexplicit>>
    /\ UNCHANGED notWriter

\* MPCWriter.flush called by the client
Flush ==
    /\ nexplicit < MaxFlushes
    /\ Flushed(FlushResult(buffer, discovery_written, written, sink,
                           auto_discovery, nflush + 1, closed))
    /\ nflush' = nflush + 1
    /\ nexplicit' = nexplicit + 1
    /\ writesAtFirstFlush' =
          IF writesAtFirstFlush < 0 THEN Len(writeLog)
          ELSE writesAtFirstFlush
    /\ UNCHANGED <<auto_flush, auto_discovery, closed, writeLog>>
    /\ UNCHANGED notWriter

\* MPCWriter.close: self.filehandle.close(), which returns on a closed file
\* as well
Close ==
    /\ closed' = TRUE
    /\ flush_raised' = "none"
    /\ UNCHANGED <<auto_flush, auto_discovery, buffer, written,
                   discovery_written, sink, writeLog, nflush, nexplicit,
                   writesAtFirstFlush>>
    /\ UNCHANGED notWriter

Next ==
    \/ \E date \in Dates, null \in BOOLEAN, mark \in DiscoveryMarks,
          renders \in BOOLEAN :
             WriteBuffered(date, null, mark, renders)
    \/ \E date \in Dates, null \in BOOLEAN, mark \in DiscoveryMarks,
          renders \in BOOLEAN :
             WriteFlushed(date, null, mark, renders)
    \/ Flush
    \/ Close

\* ------------------------------------------------------- comment decoders
(***************************************************************************)
(* A comment text is described by what the decoders look at:               *)
(*   tag    the text itself (its identity)                                 *)
(*   len56  len(line) >= 56                                                *)
(*   index  line[0:14].strip() matches \d{8}_\S{3}_\S                      *)
(*   flag1  the first character of line[24:34].strip(), "" if it is empty  *)
(*   body   the text as the survey decoders see it                         *)
(*   inner  line[56:].strip() as the survey decoders see it                *)
(* and a body by                                                           *)
(*   empty  len(comment) = 0                                               *)
(*   fixed  the part before '%' unpacks with the 62-column layout, the     *)
(*          constructor accepts its fields and a '%' part follows          *)
(*   toks   comment.split('%')[0].split()                                  *)
(*   words  comment.split()                                                *)
(*   first  the first character of comment.strip(), "" if there is none    *)
(*   ofixed "O " + comment has the fixed layout: it unpacks, the           *)
(*          constructor accepts its fields and a '%' part follows          *)
(***************************************************************************)
NoBody == [empty |-> TRUE, fixed |-> FALSE, toks |-> <<>>, words |-> <<>>,
           first |-> "", ofixed |-> FALSE]

\* the description of a text without a '%' that has not the fixed layout,
\* with or without a leading "O ": its tokens and its first character
Body(toks, first) ==
    [empty |-> FALSE, fixed |-> FALSE, toks |-> toks, words |-> toks,
     first |-> first, ofixed |-> FALSE]

\* tokens float() accepts
FloatTokens == {"0.21", "3", "500", "1632.20", "1102.70"}
\* tokens int() accepts
IntTokens == {"3", "500"}
\* float(token) as hundredths, for the plate-uncertainty range check
FloatOf(t) ==
    CASE t = "0.21" -> 21
      [] t = "3" -> 300
      [] t = "500" -> 50000
      [] t = "1632.20" -> 163220
      [] t = "1102.70" -> 110270
      [] OTHER -> 0
\* int(token), for the astrometric-level range check
IntOf(t) ==
    CASE t = "3" -> 3
      [] t = "500" -> 500
      [] OTHER -> 0

Returned(kind, txt) == [res |-> "comment", kind |-> kind, tag |-> txt.tag,
                        flag1 |-> IF kind = "TNOdb" THEN txt.flag1 ELSE "none"]
ReturnedStr(tag) == [res |-> "str", kind |-> "str", tag |-> tag,
                     flag1 |-> "none"]
Raised(exc) == [res |-> "raise", kind |-> exc, tag |-> "", flag1 |-> "none"]

\* OSSOSComment.plate_uncertainty setter: does it raise ValueError
PlateUncertaintyRaises(t) ==
    LET v == IF t \in FloatTokens THEN FloatOf(t) ELSE 20
    IN  ~(0 < v /\ v < 10000)

\* OSSOSComment.astrometric_level setter: does it raise ValueError
AstrometricLevelRaises(t) ==
    \/ t \notin IntTokens
    \/ ~(0 - 1 < IntOf(t) /\ IntOf(t) < 10)

\* the space-separated part of OSSOSComment.from_string, on the tokens
OSSOSSpaceSeparated(kind, txt, values) ==
    IF values = <<>> THEN Raised("IndexError")
    ELSE IF values[1] # "O" \/ Len(values) < 5 THEN Raised("ValueError")
    ELSE IF Len(values) < 6 THEN Raised("IndexError")
    ELSE IF Len(values) = 7 /\ PlateUncertaintyRaises(values[7])
         THEN Raised("ValueError")
    ELSE IF Len(values) = 8 /\ (PlateUncertaintyRaises(values[7]) \/
                                AstrometricLevelRaises(values[8]))
         THEN Raised("ValueError")
    ELSE IF Len(values) = 9 /\ PlateUncertaintyRaises(values[9])
         THEN Raised("ValueError")
    ELSE IF Len(values) = 10 /\ (PlateUncertaintyRaises(values[9]) \/
                                 AstrometricLevelRaises(values[10]))
         THEN Raised("ValueError")
    ELSE Returned(kind, txt)

\* OSSOSComment.from_string
OSSOSFromString(kind, txt, body) ==
    IF body.empty THEN ReturnedStr("")
    ELSE IF body.fixed THEN Returned(kind, txt)
    ELSE OSSOSSpaceSeparated(kind, txt, body.toks)

\* RealOSSOSComment.from_string
RealOSSOSFromString(txt, body) ==
    IF body.first = "" THEN Raised("IndexError")
    ELSE IF body.first # "O"
         THEN OSSOSFromString("RealOSSOS", txt,
                              [body EXCEPT !.fixed = body.ofixed,
                                           !.toks = <<"O">> \o body.toks])
         ELSE OSSOSFromString("RealOSSOS", txt, body)

\* CFEPSComment.from_string
CFEPSFromString(txt, body) ==
    IF body.words = <<>> THEN Raised("IndexError")
    ELSE IF body.words[1] # "L" \/ Len(body.words) < 2
         THEN Raised("ValueError")
    ELSE Returned("CFEPS", txt)

\* TNOdbComment.from_string
TNOdbFromString(txt) ==
    IF ~txt.len56 THEN Raised("ValueError")
    ELSE IF ~txt.index THEN Raised("ValueError")
    ELSE IF txt.inner.empty THEN Returned("TNOdb", txt)
    ELSE LET o == OSSOSFromString("OSSOS", txt, txt.inner)
             c == CFEPSFromString(txt, txt.inner)
         IN  IF o.res = "raise" /\ o.kind # "ValueError" THEN o
             ELSE IF o.res = "raise" /\ c.res = "raise" /\ c.kind # "ValueError"
                  THEN c
             ELSE Returned("TNOdb", txt)

\* the decoders MPCComment.from_string tries, in its order
Decoders == <<"TNOdb", "OSSOS", "RealOSSOS", "CFEPS", "str">>

Decode(func, txt) ==
    CASE func = "TNOdb" -> TNOdbFromString(txt)
      [] func = "OSSOS" -> OSSOSFromString("OSSOS", txt, txt.body)
      [] func = "RealOSSOS" -> RealOSSOSFromString(txt, txt.body)
      [] func = "CFEPS" -> CFEPSFromString(txt, txt.body)
      [] OTHER -> ReturnedStr(txt.tag)

\* the loop of MPCComment.from_string: ValueError moves on to the next decoder
RECURSIVE DispatchFrom(_, _)
DispatchFrom(funcs, txt) ==
    IF funcs = <<>> THEN ReturnedStr(txt.tag)
    ELSE LET r == Decode(Head(funcs), txt)
         IN  IF r.res = "raise" /\ r.kind = "ValueError"
             THEN DispatchFrom(Tail(funcs), txt)
             ELSE r

\* MPCComment.from_string
MPCCommentFromString(txt) == DispatchFrom(Decoders, txt)

\* isinstance(x, OSSOSComment)
IsOSSOSComment(r) ==
    r.res = "comment" /\ r.kind \in {"TNOdb", "OSSOS", "RealOSSOS", "CFEPS"}

\* ------------------------------------------------------------ sample texts
\* ""
TxtEmpty ==
    [tag |-> "", len56 |-> FALSE, index |-> FALSE, flag1 |-> "",
     body |-> NoBody, inner |-> NoBody]
\* "    "
TxtBlank ==
    [tag |-> "    ", len56 |-> FALSE, index |-> FALSE, flag1 |-> "",
     body |-> Body(<<>>, ""),
     inner |-> NoBody]
\* "O 1631355p21 O13AE2O     Z  1632.20 1102.70 0.21 3 ----- ---- % Apcor failure."
TxtFixed ==
    [tag |-> "O 1631355p21 O13AE2O     Z  1632.20 1102.70 0.21 3 ----- ---- % Apcor failure.",
     len56 |-> TRUE, index |-> FALSE, flag1 |-> "Z",
     body |-> [empty |-> FALSE, fixed |-> TRUE,
               toks |-> <<"O", "1631355p21", "O13AE2O", "Z", "1632.20",
                          "1102.70", "0.21", "3", "-----", "----">>,
               words |-> <<"O", "1631355p21", "O13AE2O", "Z", "1632.20",
                           "1102.70", "0.21", "3", "-----", "----", "%",
                           "Apcor", "failure.">>,
               first |-> "O", ofixed |-> FALSE],
     inner |-> [Body(<<"----">>, "-") EXCEPT
                   !.words = <<"----", "%", "Apcor", "failure.">>]]
\* "O 1631355p21 O13AE2O Z 1632.20 1102.70 0.21 3"
TxtSpaceO ==
    [tag |-> "O 1631355p21 O13AE2O Z 1632.20 1102.70 0.21 3",
     len56 |-> FALSE, index |-> FALSE, flag1 |-> "6",
     body |-> Body(<<"O", "1631355p21", "O13AE2O", "Z", "1632.20",
                     "1102.70", "0.21", "3">>, "O"),
     inner |-> NoBody]
\* "L 1631355p21"
TxtLegacy ==
    [tag |-> "L 1631355p21", len56 |-> FALSE, index |-> FALSE, flag1 |-> "",
     body |-> Body(<<"L", "1631355p21">>, "L"),
     inner |-> NoBody]
\* "L 1631355p21 measured by hand"
TxtLegacyNote ==
    [tag |-> "L 1631355p21 measured by hand",
     len56 |-> FALSE, index |-> FALSE, flag1 |-> "h",
     body |-> Body(<<"L", "1631355p21", "measured", "by", "hand">>, "L"),
     inner |-> NoBody]
\* "hello"
TxtOpaque ==
    [tag |-> "hello", len56 |-> FALSE, index |-> FALSE, flag1 |-> "",
     body |-> Body(<<"hello">>, "h"),
     inner |-> NoBody]
\* "20130405_568_1 20130405 1000000000" padded to column 56 and followed by
\* "O 1631355p21 O13AE2O Z 1632.20 1102.70 0.21 3"
TxtTNOdb ==
    [tag |-> "20130405_568_1 20130405 1000000000 O 1631355p21 O13AE2O Z 1632.20 1102.70 0.21 3",
     len56 |-> TRUE, index |-> TRUE, flag1 |-> "1",
     body |-> Body(<<"20130405_568_1", "20130405", "1000000000", "O",
                     "1631355p21", "O13AE2O", "Z", "1632.20", "1102.70",
                     "0.21", "3">>, "2"),
     inner |-> Body(<<"O", "1631355p21", "O13AE2O", "Z", "1632.20",
                      "1102.70", "0.21", "3">>, "O")]

\* "O 1631355p21 O13AE2O Z 1632.20"
TxtOShort ==
    [tag |-> "O 1631355p21 O13AE2O Z 1632.20",
     len56 |-> FALSE, index |-> FALSE, flag1 |-> "6",
     body |-> Body(<<"O", "1631355p21", "O13AE2O", "Z", "1632.20">>, "O"),
     inner |-> NoBody]
\* "O13AE2O Z 1632.20 1102.70 0.21"
TxtONamed ==
    [tag |-> "O13AE2O Z 1632.20 1102.70 0.21",
     len56 |-> FALSE, index |-> FALSE, flag1 |-> "0",
     body |-> Body(<<"O13AE2O", "Z", "1632.20", "1102.70", "0.21">>, "O"),
     inner |-> NoBody]
\* "1631355p21 O13AE2O     Z  1632.20 1102.70 0.21 3 ----- ---- % Apcor failure."
TxtFixedNoO ==
    [tag |-> "1631355p21 O13AE2O     Z  1632.20 1102.70 0.21 3 ----- ---- % Apcor failure.",
     len56 |-> TRUE, index |-> FALSE, flag1 |-> "1",
     body |-> [empty |-> FALSE, fixed |-> FALSE,
               toks |-> <<"1631355p21", "O13AE2O", "Z", "1632.20",
                          "1102.70", "0.21", "3", "-----", "----">>,
               words |-> <<"1631355p21", "O13AE2O", "Z", "1632.20",
                           "1102.70", "0.21", "3", "-----", "----", "%",
                           "Apcor", "failure.">>,
               first |-> "1", ofixed |-> TRUE],
     inner |-> [Body(<<"---">>, "-") EXCEPT
                   !.words = <<"---", "%", "Apcor", "failure.">>]]
\* "%"
TxtPercent ==
    [tag |-> "%", len56 |-> FALSE, index |-> FALSE, flag1 |-> "",
     body |-> [Body(<<>>, "%") EXCEPT !.words = <<"%">>],
     inner |-> NoBody]
\* "L % hello"
TxtLegacyPercent ==
    [tag |-> "L % hello", len56 |-> FALSE, index |-> FALSE, flag1 |-> "",
     body |-> [Body(<<"L">>, "L") EXCEPT !.words = <<"L", "%", "hello">>],
     inner |-> NoBody]
\* columns 2-80 of a data line:
\* "    K13T01   C2013 10 05.41268 12 34 45.671-20 28 15.90         20.63R      568"
TxtDataColumns ==
    [tag |-> "    K13T01   C2013 10 05.41268 12 34 45.671-20 28 15.90         20.63R      568",
     len56 |-> TRUE, index |-> FALSE, flag1 |-> "4",
     body |-> Body(<<"K13T01", "C2013", "10", "05.41268", "12", "34",
                     "45.671-20", "28", "15.90", "20.63R", "568">>, "K"),
     inner |-> Body(<<"20.63R", "568">>, "2")]

Texts == {TxtEmpty, TxtBlank, TxtFixed, TxtSpaceO, TxtLegacy, TxtLegacyNote,
          TxtOpaque, TxtTNOdb, TxtOShort, TxtONamed, TxtFixedNoO, TxtPercent,
          TxtLegacyPercent}

\* --------------------------------------------------------- physical lines
(***************************************************************************)
(* A physical line is described by                                         *)
(*   first    its first character                                          *)
(*   hash     its first character is '#'                                   *)
(*   corelen  len(mpc_line[0:80])                                          *)
(*   fields   what the Observation constructor does with the 80 unpacked   *)
(*            columns: "ok" or the exception a field setter raises         *)
(*   name     columns 2-12, stripped                                       *)
(*   mark     column 13                                                    *)
(*   txt      mpc_line[1:] of a '#' line, mpc_line[81:] of any other       *)
(*   data     the line is 80 columns laid out as an observation            *)
(*   renders  str() of the record built from the line returns: the         *)
(*            magnitude column is blank or the band column is not          *)
(***************************************************************************)
CommentLine(txt) ==
    [first |-> "#", hash |-> TRUE, corelen |-> 80, fields |-> "ok",
     name |-> "", mark |-> " ", txt |-> txt, data |-> FALSE,
     renders |-> TRUE]
DataLine(corelen, fields, txt) ==
    [first |-> " ", hash |-> FALSE, corelen |-> corelen, fields |-> fields,
     name |-> "K13T01", mark |-> " ", txt |-> txt,
     data |-> (corelen = 80 /\ fields = "ok"), renders |-> TRUE]

\* a valid 80-column data line with a magnitude and a blank band column:
\* "     K13T01   C2013 10 05.41268 12 34 45.671-20 28 15.90         20.63       568"
BandlessDataLine == [DataLine(80, "ok", TxtEmpty) EXCEPT !.renders = FALSE]

\* NullObservation.NULL_OBSERVATION_CHARACTERS
NULL_OBSERVATION_CHARACTERS == {"!", "-", "#"}

\* an 80-column data line whose first column is the sentinel ch
NullDataLine(ch) ==
    [first |-> ch, hash |-> (ch = "#"), corelen |-> 80, fields |-> "ok",
     name |-> "K13T01", mark |-> " ",
     txt |-> IF ch = "#" THEN TxtDataColumns ELSE TxtEmpty, data |-> TRUE,
     renders |-> TRUE]

SampleLines ==
    {CommentLine(t) : t \in Texts}
    \cup {DataLine(0, "ok", TxtEmpty), DataLine(79, "ok", TxtEmpty),
          DataLine(79, "MPCFieldFormatError", TxtEmpty),
          DataLine(80, "MPCFieldFormatError", TxtEmpty)}
    \cup {DataLine(80, "ok", t) : t \in Texts}
    \cup {NullDataLine(ch) : ch \in NULL_OBSERVATION_CHARACTERS}

\* ---------------------------------------------------- Observation.from_string
NoComment == [res |-> "none", kind |-> "none", tag |-> "", flag1 |-> "none"]

\* NullObservation.__init__ on the first column of the line
NullObservationOf(ch) == ch \in NULL_OBSERVATION_CHARACTERS

\* NullObservation.__str__ with the sentinel character that is set
NullObservationStr(null, character) == IF null THEN character ELSE " "

ObsResult(l, c) ==
    [res |-> "obs", name |-> l.name, comment |-> c,
     null |-> NullObservationOf(l.first),
     renders |-> l.renders,
     disc |-> IF c.kind = "TNOdb" /\ c.flag1 = "1" THEN IsDiscoveryOf("TRUE")
              ELSE IsDiscoveryOf(l.mark),
     init |-> IsInitialOf(l.mark)]

\* Observation.from_string with the field setters run before the width test
FromStringFieldsFirst(l) ==
    IF l.hash THEN MPCCommentFromString(l.txt)
    ELSE IF l.fields # "ok" THEN Raised(l.fields)
    ELSE IF l.corelen # 80 THEN NoComment
    ELSE LET c == MPCCommentFromString(l.txt)
         IN  IF c.res = "raise" THEN c
             ELSE IF c.kind = "TNOdb" /\ c.flag1 = "" THEN Raised("IndexError")
             ELSE ObsResult(l, c)

\* Observation.from_string: a comment, a string, None, a record, or a raise
ObservationFromString(l) ==
    IF l.hash THEN MPCCommentFromString(l.txt)
    ELSE IF l.corelen # 80 THEN NoComment
    ELSE IF l.fields # "ok" THEN Raised(l.fields)
    ELSE LET c == MPCCommentFromString(l.txt)
         IN  IF c.res = "raise" THEN c
             ELSE IF c.kind = "TNOdb" /\ c.flag1 = "" THEN Raised("IndexError")
             ELSE ObsResult(l, c)

\* ------------------------------------------------------------ MPCReader
\* the except clause of the loop of read(): which exceptions it swallows
CatchesValueErrorOnly(exc) == exc = "ValueError"

Catches(exc) == TRUE

\* if next_comment is not None: mpc_observation.comment = next_comment
Attach(obs, held) ==
    IF held.res # "none" THEN [obs EXCEPT !.comment = held] ELSE obs

\* mpc_observation.provisional_name = self.provisional_name
Rename(obs, replace) ==
    IF replace THEN [obs EXCEPT !.name = "O13AE2O"] ELSE obs

\* MPCReader.__init__ and the head of read()
ReaderInit ==
    /\ replace_provisional \in BOOLEAN
    /\ lines = <<>>
    /\ mpc_observations = <<>>
    /\ next_comment = NoComment
    /\ aborted = FALSE
    /\ returned = FALSE
    /\ outcomes = <<>>

\* one turn of the loop of MPCReader.read, on the next physical line l
ReadLine(l) ==
    /\ ~returned
    /\ ~aborted
    /\ Len(lines) < MaxLines
    /\ lines' = Append(lines, l)
    /\ outcomes' = Append(outcomes, ObservationFromString(l))
    /\ LET r == ObservationFromString(l)
       IN  IF r.res = "raise"
           THEN /\ aborted' = ~Catches(r.kind)
                /\ UNCHANGED <<mpc_observations, next_comment>>
           ELSE IF IsOSSOSComment(r)
           THEN /\ next_comment' = r
                /\ UNCHANGED <<mpc_observations, aborted>>
           ELSE IF r.res = "obs"
           THEN /\ mpc_observations' =
                      Append(mpc_observations,
                             [Rename(Attach(r, next_comment),
                                     replace_provisional)
                                EXCEPT !.res = Len(lines) + 1])
                /\ next_comment' = NoComment
                /\ UNCHANGED aborted
           ELSE UNCHANGED <<mpc_observations, next_comment, aborted>>
    /\ UNCHANGED <<replace_provisional, returned>>
    /\ UNCHANGED notReader

\* return numpy.array(mpc_observations)
ReadReturn ==
    /\ ~returned
    /\ ~aborted
    /\ returned' = TRUE
    /\ UNCHANGED <<replace_provisional, lines, mpc_observations,
                   next_comment, aborted, outcomes>>
    /\ UNCHANGED notReader

RNext ==
    \/ \E l \in SampleLines : ReadLine(l)
    \/ ReadReturn

\* --------------------------------------------------- survey comment object
(***************************************************************************)
(* A value handed to a setter of OSSOSComment is described by              *)
(*   lit   "None", "abc" (a string that is not a number) or "num"          *)
(*   val   the number: hundredths for a magnitude and its uncertainty,     *)
(*         units for an astrometric level                                  *)
(***************************************************************************)
None == [lit |-> "None", val |-> 0]
NotANumber == [lit |-> "abc", val |-> 0]
Num(v) == [lit |-> "num", val |-> v]

\* magnitude=: None, "abc", 15.00, 15.01, 22.50, 30.00, 35.00
MagInputs == {None, NotANumber, Num(1500), Num(1501), Num(2250), Num(3000),
              Num(3500)}
\* mag_uncertainty=: None, "abc", 0.00, 0.05, 1.00, 5.00
UncertaintyInputs == {None, NotANumber, Num(0), Num(5), Num(100), Num(500)}
\* astrometric_level=: "abc", -1, 0, 9, 10
LevelInputs == {NotANumber, Num(0 - 1), Num(0), Num(9), Num(10)}
\* photometry_note=
NoteInputs == {"Y", "Z"}
\* comment.photometry_note = : 'Y', 'Z', 'L', None
NoNote == [none |-> TRUE, text |-> ""]
Note(text) == [none |-> FALSE, text |-> text]
NoteSetterInputs == {Note("Y"), Note("Z"), Note("L"), NoNote}

\* OSSOSComment.photometry_note setter: str(photometry_note)
PhotometryNoteSetter(note) == IF note.none THEN "None" ELSE note.text

\* float(x) and int(x): the exception raised, "none" if there is none
ConversionError(x) ==
    CASE x.lit = "None" -> "TypeError"
      [] x.lit = "abc" -> "ValueError"
      [] OTHER -> "none"

\* 15 <= self._mag <= 30
PlausibleMagInclusive(v) == 1500 <= v /\ v <= 3000

\* 15 < self._mag < 30
PlausibleMag(v) == 1500 < v /\ v < 3000

\* OSSOSComment.mag setter: the stored magnitude and the note it leaves
MagSetter(m) ==
    IF ConversionError(m) = "none" /\ PlausibleMag(m.val)
    THEN [mag |-> m, note |-> "Y"]
    ELSE [mag |-> None, note |-> "Z"]

\* str(self.mag).isdigit(): the text of a float or of None is never all
\* digits
MagStrIsDigit(m) == FALSE

\* OSSOSComment.mag_uncertainty setter, given the stored magnitude and
\* note: the stored uncertainty and the note it leaves; nothing is raised
MagUncertaintySetter(u, m, note) ==
    IF ConversionError(u) = "none" /\ 0 < u.val /\ u.val < 100
    THEN [unc |-> u, note |-> note]
    ELSE [unc |-> None,
          note |-> IF MagStrIsDigit(m) THEN "L" ELSE "Z"]

\* OSSOSComment.astrometric_level setter: the exception it raises
AstrometricLevelError(a) ==
    IF ConversionError(a) # "none" THEN ConversionError(a)
    ELSE IF ~(0 - 1 < a.val /\ a.val < 10) THEN "ValueError"
    ELSE "none"

Call(op, m, u, a, raised) ==
    [op |-> op, m |-> m, u |-> u, a |-> a, raised |-> raised]

\* no comment object yet
CommentIdle ==
    /\ comment_built = FALSE
    /\ mag = None
    /\ photometry_note = "None"
    /\ mag_uncertainty = None
    /\ astrometric_level = None
    /\ last_call = Call("none", None, None, None, "none")
    /\ ncalls = 0

\* OSSOSComment.__init__(..., photometry_note=note, magnitude=m,
\* mag_uncertainty=u, astrometric_level=a) with the default plate
\* uncertainty: the setters run in the order note, mag, mag_uncertainty,
\* astrometric_level
Construct(note, m, u, a) ==
    /\ ~comment_built
    /\ ncalls < MaxCalls
    /\ LET ms == MagSetter(m)
           us == MagUncertaintySetter(u, ms.mag, ms.note)
           err == AstrometricLevelError(a)
       IN  /\ last_call' = Call("init", m, u, a, err)
           /\ IF err = "none"
              THEN /\ comment_built' = TRUE
                   /\ mag' = ms.mag
                   /\ photometry_note' = us.note
                   /\ mag_uncertainty' = us.unc
                   /\ astrometric_level' = a
              ELSE UNCHANGED <<comment_built, mag, photometry_note,
                               mag_uncertainty, astrometric_level>>
    /\ ncalls' = ncalls + 1
    /\ UNCHANGED notComment

\* comment.mag = m
SetMag(m) ==
    /\ comment_built
    /\ ncalls < MaxCalls
    /\ mag' = MagSetter(m).mag
    /\ photometry_note' = MagSetter(m).note
    /\ last_call' = Call("mag", m, None, None, "none")
    /\ ncalls' = ncalls + 1
    /\ UNCHANGED <<comment_built, mag_uncertainty, astrometric_level>>
    /\ UNCHANGED notComment

\* comment.mag_uncertainty = u
SetMagUncertainty(u) ==
    /\ comment_built
    /\ ncalls < MaxCalls
    /\ mag_uncertainty' = MagUncertaintySetter(u, mag, photometry_note).unc
    /\ photometry_note' = MagUncertaintySetter(u, mag, photometry_note).note
    /\ last_call' = Call("mag_uncertainty", None, u, None, "none")
    /\ ncalls' = ncalls + 1
    /\ UNCHANGED <<comment_built, mag, astrometric_level>>
    /\ UNCHANGED notComment

\* comment.astrometric_level = a
SetAstrometricLevel(a) ==
    /\ comment_built
    /\ ncalls < MaxCalls
    /\ astrometric_level' =
          IF AstrometricLevelError(a) = "none" THEN a ELSE astrometric_level
    /\ last_call' = Call("astrometric_level", None, None, a,
                         AstrometricLevelError(a))
    /\ ncalls' = ncalls + 1
    /\ UNCHANGED <<comment_built, mag, photometry_note, mag_uncertainty>>
    /\ UNCHANGED notComment

\* comment.photometry_note = note
SetPhotometryNote(note) ==
    /\ comment_built
    /\ ncalls < MaxCalls
    /\ photometry_note' = PhotometryNoteSetter(note)
    /\ last_call' = Call("photometry_note", None, None, None, "none")
    /\ ncalls' = ncalls + 1
    /\ UNCHANGED <<comment_built, mag, mag_uncertainty, astrometric_level>>
    /\ UNCHANGED notComment

CNext ==
    \/ \E note \in NoteInputs, m \in MagInputs, u \in UncertaintyInputs,
          a \in LevelInputs : Construct(note, m, u, a)
    \/ \E note \in NoteSetterInputs : SetPhotometryNote(note)
    \/ \E m \in MagInputs : SetMag(m)
    \/ \E u \in UncertaintyInputs : SetMagUncertainty(u)
    \/ \E a \in LevelInputs : SetAstrometricLevel(a)

\* ------------------------------------------- parse and render of one record
(***************************************************************************)
(* A number written in a column of a data line is described by             *)
(*   digits  the number of characters after its '.', 0 if it has none      *)
(*   frac    those characters read as an integer                           *)
(* (the date's day fraction, the seconds of RA, the arc seconds of DEC),   *)
(* and the magnitude column by                                             *)
(*   blank   the five columns are spaces                                   *)
(*   digits  as above                                                      *)
(*   val     the magnitude in hundredths                                   *)
(***************************************************************************)
Pow10(n) ==
    CASE n = 0 -> 1 [] n = 1 -> 10 [] n = 2 -> 100 [] n = 3 -> 1000
      [] n = 4 -> 10000 [] n = 5 -> 100000 [] OTHER -> 1000000

Min(a, b) == IF a < b THEN a ELSE b

\* 2^k modulo 100, where 2^-k is the spacing of the doubles around the
\* number of value hundredths
SpacingMod100(value) ==
    CASE value >= 12800 -> 32 [] value >= 6400 -> 64 [] value >= 3200 -> 28
      [] value >= 1600 -> 56 [] value >= 800 -> 12 [] value >= 400 -> 24
      [] value >= 200 -> 48 [] value >= 100 -> 96 [] value >= 50 -> 92
      [] value >= 25 -> 84 [] value >= 13 -> 68 [] value >= 7 -> 36
      [] value >= 4 -> 72 [] value >= 2 -> 44 [] OTHER -> 88

\* float(text) against the number written: "below", "exact" or "above",
\* for a number of value hundredths (the double nearest to value / 100 is
\* m / 2^k with m the integer nearest to value * 2^k / 100)
DoubleOf(value) ==
    LET r == (value * SpacingMod100(value)) % 100
    IN  IF r = 0 THEN "exact" ELSE IF r < 50 THEN "below" ELSE "above"

\* '{:.nf}'.format(float): value, in hundredths, rounded to a multiple of
\* unit; the double is rounded correctly, so a number half way between two
\* multiples goes where its double lies, and to the even multiple when the
\* double is exact
RoundTo(value, unit) ==
    LET down == (value \div unit) * unit
        rest == value - down
    IN  IF 2 * rest < unit THEN down
        ELSE IF 2 * rest > unit THEN down + unit
        ELSE IF DoubleOf(value) = "below" THEN down
        ELSE IF DoubleOf(value) = "above" THEN down + unit
        ELSE IF (down \div unit) % 2 = 0 THEN down
        ELSE down + unit

\* "2013 10 05.5", "2013 10 05.41268", "2013 10 05.412685"
DateLiterals == {[digits |-> 1, frac |-> 5], [digits |-> 5, frac |-> 41268],
                 [digits |-> 6, frac |-> 412685]}
\* "12 34 45.671", "12 34 45.67 ", "12 34 45.6  "
RaLiterals == {[digits |-> 3, frac |-> 671], [digits |-> 2, frac |-> 67],
               [digits |-> 1, frac |-> 6]}
\* "-20 28 15.90", "-20 28 15.9 "
DecLiterals == {[digits |-> 2, frac |-> 90], [digits |-> 1, frac |-> 9]}
\* "     ", "20.63", "20.6 ", "21   ", "20.65", "20.25"
MagLiterals == {[blank |-> TRUE, digits |-> 0, val |-> 0],
                [blank |-> FALSE, digits |-> 2, val |-> 2063],
                [blank |-> FALSE, digits |-> 1, val |-> 2060],
                [blank |-> FALSE, digits |-> 0, val |-> 2100],
                [blank |-> FALSE, digits |-> 2, val |-> 2065],
                [blank |-> FALSE, digits |-> 2, val |-> 2025]}
BandLiterals == {"R", " "}

\* "O 1631355p21 O13AE2O     Z  1632.20 1102.70 0.21 3 ----- ---- % "
TxtFixedBare ==
    [tag |-> "O 1631355p21 O13AE2O     Z  1632.20 1102.70 0.21 3 ----- ---- % ",
     len56 |-> TRUE, index |-> FALSE, flag1 |-> "Z",
     body |-> [empty |-> FALSE, fixed |-> TRUE,
               toks |-> <<"O", "1631355p21", "O13AE2O", "Z", "1632.20",
                          "1102.70", "0.21", "3", "-----", "----">>,
               words |-> <<"O", "1631355p21", "O13AE2O", "Z", "1632.20",
                           "1102.70", "0.21", "3", "-----", "----", "%">>,
               first |-> "O", ofixed |-> FALSE],
     inner |-> [Body(<<"----">>, "-") EXCEPT !.words = <<"----", "%">>]]

\* names found in columns 2-12 of a data line
LineNames == {"K13T01", "o3e01nailed"}
\* names MPCReader.provisional_name derives from the name of the file
FileNames == {"O13AE2O", "o3e01_nailing"}

\* len(self.provisional_name)
NameLen(name) ==
    CASE name = "K13T01" -> 6
      [] name = "O13AE2O" -> 7
      [] name = "o3e01nailed" -> 11
      [] name = "o3e01_nailing" -> 13
      [] OTHER -> 0

\* an 80-column data line followed by a survey comment
ValidLine(name, mark, date, ra, dec, m, band, txt) ==
    [res |-> "line", width |-> 80, name |-> name, mark |-> mark,
     date |-> date, ra |-> ra, dec |-> dec, mag |-> m, band |-> band,
     code |-> "568", txt |-> txt]

\* the date, RA, DEC, magnitude and band columns of the lines: every
\* magnitude with every band, and every other literal of one column with
\* "2013 10 05.41268", "12 34 45.671", "-20 28 15.90", "20.63" and "R"
LineColumns ==
    {<<date, ra, dec, m, band>> :
        date \in {[digits |-> 5, frac |-> 41268]},
        ra \in {[digits |-> 3, frac |-> 671]},
        dec \in {[digits |-> 2, frac |-> 90]},
        m \in MagLiterals, band \in BandLiterals}
    \cup {<<date, ra, dec, m, band>> :
        date \in DateLiterals, ra \in {[digits |-> 3, frac |-> 671]},
        dec \in {[digits |-> 2, frac |-> 90]},
        m \in {[blank |-> FALSE, digits |-> 2, val |-> 2063]}, band \in {"R"}}
    \cup {<<date, ra, dec, m, band>> :
        date \in {[digits |-> 5, frac |-> 41268]}, ra \in RaLiterals,
        dec \in DecLiterals,
        m \in {[blank |-> FALSE, digits |-> 2, val |-> 2063]}, band \in {"R"}}

ValidLines ==
    {ValidLine(name, mark, c[1], c[2], c[3], c[4], c[5], txt) :
        name \in LineNames, mark \in DiscoveryMarks, c \in LineColumns,
        txt \in {TxtFixed, TxtSpaceO}}

\* compute_precision: the number of characters after the last '.'
compute_precision(coord) == coord.digits

\* "yesterday": a text without a '.' that is no date of the MPC layout
NotADate == [digits |-> 0, frac |-> 0]

\* Time(date_str, format='mpc', scale='utc', precision=...) returns
TimeAccepts(date) == date # NotADate

\* Observation.date setter on a record whose Time holds the day fraction
\* date0 with the precision precision0: _date_precision is computed first;
\* the day fraction, in millionths of a day, and the precision of the Time
\* are replaced only if the Time is built
DateSetter(date, date0, precision0) ==
    IF TimeAccepts(date)
    THEN [value |-> date.frac * Pow10(6 - date.digits),
          precision |-> compute_precision(date),
          time_precision |-> compute_precision(date),
          raised |-> "none"]
    ELSE [value |-> date0,
          precision |-> compute_precision(date),
          time_precision |-> precision0,
          raised |-> "MPCFieldFormatError"]

\* TimeMPC.str_kwargs: the day fraction as six digits, cut to the precision
\* of the Time
DateStr(value, precision) ==
    [digits |-> precision, frac |-> value \div Pow10(6 - precision)]

\* a pair of sexagesimal texts
Sexagesimal(ra, dec) == [form |-> "sexagesimal", ra |-> ra, dec |-> dec]

\* the pairs given to the coordinate setter:
\*   ('12 34 45.6', '-20 28 15.9'), ('12 34 45.6789', '-20 28 15.987'),
\*   (188.69, -20.471) in degrees, which is 12 34 45.6 and -20 28 15.6,
\*   ('12 34 xx.xxx', '-20 28 xx.xx'), neither numbers nor angles
CoordinateInputs ==
    {Sexagesimal([digits |-> 1, frac |-> 6], [digits |-> 1, frac |-> 9]),
     Sexagesimal([digits |-> 4, frac |-> 6789], [digits |-> 3, frac |-> 987]),
     [form |-> "degrees", ra |-> [digits |-> 1, frac |-> 6],
      dec |-> [digits |-> 1, frac |-> 6]],
     [form |-> "neither", ra |-> [digits |-> 3, frac |-> 0],
      dec |-> [digits |-> 2, frac |-> 0]]}

\* Observation.coordinate setter on a record holding ra0 and dec0: RA in
\* ten-thousandths of a second, DEC in thousandths of an arc second, the
\* two precisions, and what it raises. A pair of numbers is taken as
\* degrees with the precisions 3 and 2; for any other pair the precisions
\* are computed from the texts before the coordinate is built
CoordinateSetter(pair, ra0, dec0) ==
    IF pair.form = "degrees"
    THEN [ra |-> pair.ra.frac * Pow10(4 - pair.ra.digits),
          dec |-> pair.dec.frac * Pow10(3 - pair.dec.digits),
          ra_precision |-> 3, dec_precision |-> 2, raised |-> "none"]
    ELSE IF pair.form = "sexagesimal"
    THEN [ra |-> pair.ra.frac * Pow10(4 - pair.ra.digits),
          dec |-> pair.dec.frac * Pow10(3 - pair.dec.digits),
          ra_precision |-> compute_precision(pair.ra),
          dec_precision |-> compute_precision(pair.dec),
          raised |-> "none"]
    ELSE [ra |-> ra0, dec |-> dec0,
          ra_precision |-> compute_precision(pair.ra),
          dec_precision |-> compute_precision(pair.dec),
          raised |-> "MPCFieldFormatError"]

\* Observation.ra: the seconds written with ra_precision decimals, rounded
\* to the nearest (no coordinate here lies half way between two texts)
RaStr(value, precision) ==
    [digits |-> precision,
     frac |-> RoundTo(value, Pow10(4 - precision)) \div Pow10(4 - precision)]

\* Observation.dec: the arc seconds written with dec_precision decimals
DecStr(value, precision) ==
    [digits |-> precision,
     frac |-> RoundTo(value, Pow10(3 - precision)) \div Pow10(3 - precision)]

\* Observation.mag setter: the stored magnitude and _mag_precision
ObservationMagSetter(m) ==
    IF m.blank \/ m.val < 0
    THEN [mag |-> None, precision |-> 0]
    ELSE [mag |-> Num(m.val), precision |-> Min(1, compute_precision(m))]

\* Observation.band setter: the first character, None if the column is blank
BandSetter(band) == IF band = " " THEN "None" ELSE band

\* the values Discovery.is_discovery takes: '*', '&', ' ', '', True, False
\* and None
DiscoveryAccepts(v) == v \in DiscoveryMarks \cup {"", "TRUE", "FALSE", "None"}

\* the values given to the discovery setters
DiscoveryInputs == DiscoveryMarks \cup {"TRUE", "FALSE", "x"}

\* len(str(observatory_code))
CodeLen(code) == IF code = "5680" THEN 4 ELSE 3

\* the values given to the observatory_code setter
CodeInputs == {"500", "5680"}

\* Observation.observatory_code setter on a record holding code0
ObservatoryCodeSetter(code, code0) ==
    IF CodeLen(code) <= 3 THEN [code |-> code, raised |-> "none"]
    ELSE [code |-> code0, raised |-> "MPCFieldFormatError"]

\* Observation.comment setter: None is stored as ""
CommentSetter(c) == IF c.res = "none" THEN ReturnedStr("") ELSE c

\* the values given to the comment setter: None and a survey comment
CommentInputs == {NoComment, MPCCommentFromString(TxtSpaceO)}

\* str(self.comment): "" of the empty comment, else OSSOSComment.__str__ of
\* the comment parsed from a sample text, the 62-column layout followed by
\* '%' and the free text
CommentStr(c) ==
    IF c.res = "str" THEN TxtEmpty
    ELSE IF c.tag = TxtFixed.tag THEN TxtFixed ELSE TxtFixedBare

\* Observation.from_string on a valid line: Observation.__init__ on the
\* unpacked columns, then the comment
Obsrec(line) ==
    LET coord == CoordinateSetter(Sexagesimal(line.ra, line.dec), 0, 0)
        date == DateSetter(line.date, 0, 0)
        m == ObservationMagSetter(line.mag)
    IN  [res |-> "obs",
         name |-> line.name,
         disc |-> IsDiscoveryOf(line.mark),
         init |-> IsInitialOf(line.mark),
         date |-> date.value,
         date_precision |-> date.precision,
         time_precision |-> date.time_precision,
         ra |-> coord.ra,
         dec |-> coord.dec,
         \* self._ra_precision = 3; self._dec_precision = 2, after the
         \* coordinate setter has run
         ra_precision |-> 3,
         dec_precision |-> 2,
         mag |-> m.mag,
         mag_precision |-> m.precision,
         band |-> BandSetter(line.band),
         code |-> line.code,
         comment |-> MPCCommentFromString(line.txt)]

\* Observation.__str__: the magnitude and band columns, six characters
MagStr(obs) ==
    IF obs.mag = None
    THEN [res |-> "ok", mag |-> [blank |-> TRUE, digits |-> 0, val |-> 0],
          band |-> " "]
    ELSE IF obs.band = "None"
    THEN [res |-> "MPCFieldFormatError",
          mag |-> [blank |-> TRUE, digits |-> 0, val |-> 0], band |-> " "]
    ELSE [res |-> "ok",
          mag |-> [blank |-> FALSE, digits |-> obs.mag_precision,
                   val |-> RoundTo(obs.mag.val,
                                   Pow10(2 - obs.mag_precision))],
          band |-> obs.band]

\* "%-12s" % (null_observation + padding + provisional_name): its length
NameColumns(name) ==
    LET padding == IF NameLen(name) > 7 THEN 0 ELSE 4
        used == 1 + padding + NameLen(name)
    IN  IF used < 12 THEN 12 ELSE used

\* '{0:<12s}'.format(text) of a sexagesimal text with whole characters
\* before the decimals: its length
AngleColumns(whole, precision) ==
    LET used == whole + (IF precision > 0 THEN 1 + precision ELSE 0)
    IN  IF used < 12 THEN 12 ELSE used

\* len(str(obs)): the name columns, the discovery and note columns, the
\* date, RA ("12 34 45" and its decimals), DEC ("-20 28 15" and its
\* decimals), nine blanks, the magnitude and band, six blanks and the
\* observatory code
StrWidth(obs) ==
    NameColumns(obs.name) + 1 + 2 + 17 + AngleColumns(8, obs.ra_precision)
    + AngleColumns(9, obs.dec_precision) + 9 + 6 + 6 + 3

\* Observation.to_string
to_string(obs) ==
    IF MagStr(obs).res # "ok"
    THEN [res |-> "raise", kind |-> MagStr(obs).res]
    ELSE [res |-> "line",
          width |-> StrWidth(obs),
          name |-> obs.name,
          mark |-> DiscoveryStr(obs),
          date |-> DateStr(obs.date, obs.time_precision),
          ra |-> RaStr(obs.ra, obs.ra_precision),
          dec |-> DecStr(obs.dec, obs.dec_precision),
          mag |-> MagStr(obs).mag,
          band |-> MagStr(obs).band,
          code |-> obs.code,
          txt |-> CommentStr(obs.comment)]

NoObsrec == [res |-> "none"]

\* nothing is being parsed
ParseIdle ==
    /\ input_line = [res |-> "none"]
    /\ obsrec = NoObsrec
    /\ as_string = [res |-> "none"]
    /\ obsrec2 = NoObsrec
    /\ pstep = "idle"
    /\ obs_raised = "none"
    /\ nedits = 0

\* a valid line is at hand
ParseInit ==
    /\ input_line \in ValidLines
    /\ obsrec = NoObsrec
    /\ as_string = [res |-> "none"]
    /\ obsrec2 = NoObsrec
    /\ pstep = "line"
    /\ obs_raised = "none"
    /\ nedits = 0

\* obsrec = Observation.from_string(input_line)
ParseLine ==
    /\ pstep = "line"
    /\ obsrec' = Obsrec(input_line)
    /\ pstep' = "parsed"
    /\ obs_raised' = "none"
    /\ UNCHANGED <<input_line, as_string, obsrec2, nedits>>
    /\ UNCHANGED notParse

\* mpc_observation.provisional_name = self.provisional_name, as read()
\* does with replace_provisional
ReplaceProvisional(name) ==
    /\ pstep = "parsed"
    /\ obsrec' = [obsrec EXCEPT !.name = name]
    /\ pstep' = "renamed"
    /\ obs_raised' = "none"
    /\ UNCHANGED <<input_line, as_string, obsrec2, nedits>>
    /\ UNCHANGED notParse

\* the parsed record is at hand and may be called
Editable == pstep \in {"parsed", "renamed"} /\ nedits < MaxEdits

\* obsrec.mag = m
SetObservationMag(m) ==
    /\ Editable
    /\ obsrec' = [obsrec EXCEPT !.mag = ObservationMagSetter(m).mag,
                                !.mag_precision =
                                    ObservationMagSetter(m).precision]
    /\ obs_raised' = "none"
    /\ nedits' = nedits + 1
    /\ UNCHANGED <<input_line, as_string, obsrec2, pstep>>
    /\ UNCHANGED notParse

\* obsrec.band = band
SetBand(band) ==
    /\ Editable
    /\ obsrec' = [obsrec EXCEPT !.band = BandSetter(band)]
    /\ obs_raised' = "none"
    /\ nedits' = nedits + 1
    /\ UNCHANGED <<input_line, as_string, obsrec2, pstep>>
    /\ UNCHANGED notParse

\* the record after rec.coordinate = pair
WithCoordinate(rec, set) ==
    [rec EXCEPT !.ra = set.ra, !.dec = set.dec,
                !.ra_precision = set.ra_precision,
                !.dec_precision = set.dec_precision]

\* obsrec.coordinate = pair
SetCoordinate(pair) ==
    /\ Editable
    /\ obsrec' = WithCoordinate(obsrec, CoordinateSetter(pair, obsrec.ra,
                                                         obsrec.dec))
    /\ obs_raised' = CoordinateSetter(pair, obsrec.ra, obsrec.dec).raised
    /\ nedits' = nedits + 1
    /\ UNCHANGED <<input_line, as_string, obsrec2, pstep>>
    /\ UNCHANGED notParse

\* the record after rec.date = date
WithDate(rec, set) ==
    [rec EXCEPT !.date = set.value, !.date_precision = set.precision,
                !.time_precision = set.time_precision]

\* obsrec.date = date
SetDate(date) ==
    /\ Editable
    /\ obsrec' = WithDate(obsrec, DateSetter(date, obsrec.date,
                                             obsrec.time_precision))
    /\ obs_raised' = DateSetter(date, obsrec.date,
                                obsrec.time_precision).raised
    /\ nedits' = nedits + 1
    /\ UNCHANGED <<input_line, as_string, obsrec2, pstep>>
    /\ UNCHANGED notParse

\* obsrec.discovery = v: a new Discovery, unless its constructor raises
SetDiscovery(v) ==
    /\ Editable
    /\ obsrec' = IF DiscoveryAccepts(v)
                 THEN [obsrec EXCEPT !.disc = IsDiscoveryOf(v),
                                     !.init = IsInitialOf(v)]
                 ELSE obsrec
    /\ obs_raised' = IF DiscoveryAccepts(v) THEN "none"
                     ELSE "MPCFieldFormatError"
    /\ nedits' = nedits + 1
    /\ UNCHANGED <<input_line, as_string, obsrec2, pstep>>
    /\ UNCHANGED notParse

\* obsrec.discovery.is_discovery = v
SetIsDiscovery(v) ==
    /\ Editable
    /\ obsrec' = IF DiscoveryAccepts(v)
                 THEN [obsrec EXCEPT !.disc = IsDiscoveryOf(v)]
                 ELSE obsrec
    /\ obs_raised' = IF DiscoveryAccepts(v) THEN "none"
                     ELSE "MPCFieldFormatError"
    /\ nedits' = nedits + 1
    /\ UNCHANGED <<input_line, as_string, obsrec2, pstep>>
    /\ UNCHANGED notParse

\* obsrec.discovery.is_initial_discovery = v, which takes any value
SetIsInitialDiscovery(v) ==
    /\ Editable
    /\ obsrec' = [obsrec EXCEPT !.init = IsInitialOf(v)]
    /\ obs_raised' = "none"
    /\ nedits' = nedits + 1
    /\ UNCHANGED <<input_line, as_string, obsrec2, pstep>>
    /\ UNCHANGED notParse

\* obsrec.observatory_code = code
SetObservatoryCode(code) ==
    /\ Editable
    /\ obsrec' = [obsrec EXCEPT
                    !.code = ObservatoryCodeSetter(code, obsrec.code).code]
    /\ obs_raised' = ObservatoryCodeSetter(code, obsrec.code).raised
    /\ nedits' = nedits + 1
    /\ UNCHANGED <<input_line, as_string, obsrec2, pstep>>
    /\ UNCHANGED notParse

\* obsrec.comment = c
SetComment(c) ==
    /\ Editable
    /\ obsrec' = [obsrec EXCEPT !.comment = CommentSetter(c)]
    /\ obs_raised' = "none"
    /\ nedits' = nedits + 1
    /\ UNCHANGED <<input_line, as_string, obsrec2, pstep>>
    /\ UNCHANGED notParse

\* obsrec.to_tnodb(): the stored magnitude is never -1, so _mag_precision is
\* set to 1, and str(self) then returns or raises
ToTnodb ==
    /\ Editable
    /\ obsrec' = [obsrec EXCEPT !.mag_precision = 1]
    /\ obs_raised' = IF MagStr([obsrec EXCEPT !.mag_precision = 1]).res = "ok"
                     THEN "none"
                     ELSE MagStr([obsrec EXCEPT !.mag_precision = 1]).res
    /\ nedits' = nedits + 1
    /\ UNCHANGED <<input_line, as_string, obsrec2, pstep>>
    /\ UNCHANGED notParse

\* as_string = obsrec.to_string()
Render ==
    /\ pstep \in {"parsed", "renamed"}
    /\ as_string' = to_string(obsrec)
    /\ pstep' = "rendered"
    /\ obs_raised' = IF to_string(obsrec).res = "raise"
                     THEN to_string(obsrec).kind ELSE "none"
    /\ UNCHANGED <<input_line, obsrec, obsrec2, nedits>>
    /\ UNCHANGED notParse

\* mpc_line[12] of a rendering: the discovery mark, or the twelfth character
\* of a name that is longer than its eleven columns
Column13(line) ==
    IF NameColumns(line.name) > 12 THEN "n" ELSE line.mark

\* the RA text of a rendering is longer than its twelve columns: columns
\* 33-44 hold the text without its last digit and columns 45-56 begin with
\* that digit, a pair the coordinate setter rejects
RaOverflows(line) == AngleColumns(8, line.ra.digits) > 12

\* the exception Observation(...) raises on the first 80 columns of a
\* rendering: Discovery(...) rejects a character of an overflowing name,
\* the coordinate setter a pair cut from an overflowing RA
UnpackError(line) ==
    IF ~DiscoveryAccepts(Column13(line)) \/ RaOverflows(line)
    THEN "MPCFieldFormatError" ELSE "none"

\* obsrec2 = Observation.from_string(as_string): the first 80 columns are
\* unpacked into the fields of a new record
Reparse ==
    /\ pstep = "rendered"
    /\ as_string.res = "line"
    /\ as_string.width = 80 \/ UnpackError(as_string) # "none"
    /\ obsrec2' = IF UnpackError(as_string) = "none"
                  THEN Obsrec(as_string) ELSE NoObsrec
    /\ obs_raised' = UnpackError(as_string)
    /\ pstep' = "reparsed"
    /\ UNCHANGED <<input_line, obsrec, as_string, nedits>>
    /\ UNCHANGED notParse

\* every rendering is one that from_string is modelled on
ReparseCovers ==
    (pstep = "rendered" /\ as_string.res = "line") =>
        (as_string.width = 80 \/ UnpackError(as_string) # "none")

PNext ==
    \/ ParseLine
    \/ \E name \in FileNames : ReplaceProvisional(name)
    \/ \E m \in MagLiterals : SetObservationMag(m)
    \/ \E band \in BandLiterals : SetBand(band)
    \/ \E pair \in CoordinateInputs : SetCoordinate(pair)
    \/ \E date \in DateLiterals \cup {NotADate} : SetDate(date)
    \/ \E v \in DiscoveryInputs : SetDiscovery(v)
    \/ \E v \in DiscoveryInputs : SetIsDiscovery(v)
    \/ \E v \in DiscoveryInputs : SetIsInitialDiscovery(v)
    \/ \E code \in CodeInputs : SetObservatoryCode(code)
    \/ \E c \in CommentInputs : SetComment(c)
    \/ ToTnodb
    \/ Render
    \/ Reparse

\* ------------------------------------------------- run header and converter
\* all sequences over S of length lo to hi
SeqsOf(S, lo, hi) == UNION {[1..n -> S] : n \in lo..hi}

DEFAULT_OBSERVERS == <<"M. T. Bannister", "J. J. Kavelaars">>

Observers == {"M. T. Bannister", "J. J. Kavelaars"}

\* the observer lists make_tnodb_header is called with
ObserverLists == SeqsOf(Observers, 1, MaxObservers)

\* the loop of make_tnodb_header over observers[:-1], starting with sep
RECURSIVE ObserverLoop(_, _)
ObserverLoop(front, sep) ==
    IF front = <<>> THEN <<>>
    ELSE (IF sep = "" THEN <<Head(front)>> ELSE <<sep, Head(front)>>)
         \o ObserverLoop(Tail(front), ", ")

\* make_tnodb_header: what follows "OBS " on the observer line, as the
\* sequence of names and separators written
ObsLine(observers) ==
    ObserverLoop(SubSeq(observers, 1, Len(observers) - 1), "")
    \o (IF Len(observers) > 1
        THEN <<" and ", observers[Len(observers)]>>
        ELSE <<>>)

\* make_tnodb_header(observations): the exception it raises on the list,
\* "none" if it returns the header
HeaderError(observations) ==
    IF observations = <<>> THEN "IndexError"
    ELSE IF \E i \in 1..Len(observations) : observations[i].res # "obs"
    THEN "AttributeError"
    ELSE "none"

\* the lines a file given to the converter is made of: a record, a null
\* record, a short line, a survey comment line, a line no setter accepts,
\* a record that does not render
FileLines ==
    {DataLine(80, "ok", TxtEmpty), NullDataLine("!"),
     DataLine(79, "ok", TxtEmpty), CommentLine(TxtFixed),
     DataLine(80, "MPCFieldFormatError", TxtEmpty), BandlessDataLine}

\* the files a converter is made for
Files == SeqsOf(FileLines, 0, MaxFileLines)

\* one pass of the loop of convert() over infile.readlines(): obs is what
\* from_string gave for the line, rest the result on the lines after it
AppendParsed(obs, rest) ==
    IF obs.res = "raise" THEN [raised |-> obs.kind, list |-> <<>>]
    ELSE [rest EXCEPT !.list = <<obs>> \o rest.list]

\* the loop of convert() over infile.readlines(): the list it builds, up
\* to the first line on which from_string raises
RECURSIVE ObservationsOf(_)
ObservationsOf(ls) ==
    IF ls = <<>> THEN [raised |-> "none", list |-> <<>>]
    ELSE AppendParsed(ObservationFromString(Head(ls)),
                      ObservationsOf(Tail(ls)))

\* the loop of convert() over the observations: obs.to_tnodb() is written
\* for the position n and those after it, up to the first that is no record
\* or whose str() raises
RECURSIVE TnodbLoop(_, _)
TnodbLoop(observations, n) ==
    IF n > Len(observations) THEN [raised |-> "none", out |-> <<>>]
    ELSE IF observations[n].res # "obs"
    THEN [raised |-> "AttributeError", out |-> <<>>]
    ELSE IF ~observations[n].renders
    THEN [raised |-> "MPCFieldFormatError", out |-> <<>>]
    ELSE LET rest == TnodbLoop(observations, n + 1)
         IN  [rest EXCEPT !.out = <<[kind |-> "tnodb", line |-> n,
                                     sentinel |-> NullObservationStr(
                                         observations[n].null, "-")]>>
                                  \o rest.out]

\* no converter, and make_tnodb_header has not been called
ConvertIdle ==
    /\ infile = <<>>
    /\ outfile = <<>>
    /\ write_header = TRUE
    /\ convert_raised = "none"
    /\ nconvert = 0
    /\ header_observers = <<>>
    /\ header_obs = <<>>

\* MPCConverter.__init__ on a file
ConvertInit ==
    /\ infile \in Files
    /\ outfile = <<>>
    /\ write_header = TRUE
    /\ convert_raised = "none"
    /\ nconvert = 0
    /\ header_observers = <<>>
    /\ header_obs = <<>>

\* make_tnodb_header(observations, observers=observers) on a list of records
MakeHeader(observers) ==
    /\ header_observers' = observers
    /\ header_obs' = ObsLine(observers)
    /\ UNCHANGED <<infile, outfile, write_header, convert_raised, nconvert>>
    /\ UNCHANGED notConvert

\* convert() after the read loop: parsed is the result of the loop over the
\* lines, herr what make_tnodb_header raises on the list, body the result
\* of the loop over obs.to_tnodb()
WriteConverted(parsed, herr, body) ==
    IF parsed.raised # "none"
    THEN /\ convert_raised' = parsed.raised
         /\ UNCHANGED <<outfile, write_header>>
    ELSE IF write_header /\ herr # "none"
    THEN /\ convert_raised' = herr
         /\ UNCHANGED <<outfile, write_header>>
    ELSE /\ convert_raised' = body.raised
         /\ outfile' = outfile
                        \o (IF write_header
                            THEN <<[kind |-> "header", line |-> 0,
                                    sentinel |-> " "]>>
                            ELSE <<>>)
                        \o body.out
         /\ write_header' = FALSE

\* convert() on the list the read loop built
ConvertParsed(parsed) ==
    WriteConverted(parsed, HeaderError(parsed.list),
                   TnodbLoop(parsed.list, 1))

\* MPCConverter.convert
Convert ==
    /\ nconvert < MaxConverts
    /\ nconvert' = nconvert + 1
    /\ ConvertParsed(ObservationsOf(infile))
    /\ UNCHANGED <<infile, header_observers, header_obs>>
    /\ UNCHANGED notConvert

HNext ==
    \/ \E observers \in ObserverLists : MakeHeader(observers)
    \/ Convert

\* ------------------------------------------------------------------ Index
(***************************************************************************)
(* A row of the side table is the sequence of its 10-character columns,    *)
(* each stripped: the canonical name, then the aliases.  A column that     *)
(* holds only blanks or the newline gives the empty name.                  *)
(***************************************************************************)
IndexNames == {"O13AE2O", "AE2", ""}

Rows == SeqsOf(IndexNames, 1, MaxColumns)

Tables == SeqsOf(Rows, 0, MaxRows)

\* d[key] = value on a dict
DictPut(d, key, value) ==
    [k \in (DOMAIN d) \cup {key} |-> IF k = key THEN value ELSE d[k]]

\* the inner loop of Index.__init__ over the alias columns of one row
RECURSIVE AliasLoop(_, _, _)
AliasLoop(st, master_name, aliases) ==
    IF aliases = <<>> THEN st
    ELSE LET this_name == Head(aliases)
         IN  AliasLoop(
                 [names |-> DictPut(st.names, this_name, master_name),
                  index |-> DictPut(st.index, master_name,
                                    Append(st.index[master_name], this_name))],
                 master_name, Tail(aliases))

\* the outer loop of Index.__init__ over the rows
RECURSIVE RowLoop(_, _)
RowLoop(st, rows) ==
    IF rows = <<>> THEN st
    ELSE LET master_name == Head(rows)[1]
             st1 == [names |-> DictPut(st.names, master_name, master_name),
                     index |-> DictPut(st.index, master_name,
                                       <<master_name>>)]
         IN  RowLoop(AliasLoop(st1, master_name, Tail(Head(rows))),
                     Tail(rows))

\* name2 in name1, for two strings
IsSubstring(name2, name1) ==
    \/ name2 = ""
    \/ name2 = name1
    \/ (name2 = "AE2" /\ name1 = "O13AE2O")

\* Index.get_aliases: the alias list of a known name, the name itself
\* otherwise
get_aliases(nm, idx, name) ==
    IF name \notin DOMAIN nm
    THEN [known |-> FALSE, name |-> name, list |-> <<>>]
    ELSE [known |-> TRUE, name |-> name, list |-> idx[nm[name]]]

\* Index.is_same: name2 in self.get_aliases(name1)
is_same(nm, idx, name1, name2) ==
    LET aliases == get_aliases(nm, idx, name1)
    IN  IF aliases.known
        THEN \E i \in 1..Len(aliases.list) : aliases.list[i] = name2
        ELSE IsSubstring(name2, aliases.name)

\* no Index
IndexIdle ==
    /\ idx_rows = <<>>
    /\ idx_built = FALSE
    /\ names = <<>>
    /\ index = <<>>

\* a side table is at hand
IndexInit ==
    /\ idx_rows \in Tables
    /\ idx_built = FALSE
    /\ names = <<>>
    /\ index = <<>>

\* Index.__init__
Build ==
    /\ ~idx_built
    /\ idx_built' = TRUE
    /\ LET st == RowLoop([names |-> <<>>, index |-> <<>>], idx_rows)
       IN  /\ names' = st.names
           /\ index' = st.index
    /\ UNCHANGED idx_rows
    /\ UNCHANGED notIndex

INext == Build

\* ------------------------------------------------------------ specifications
vars == <<wvars, rvars, cvars, pvars, hvars, ivars>>

\* the reader before read() is called
ReaderIdle ==
    /\ replace_provisional = FALSE
    /\ lines = <<>>
    /\ mpc_observations = <<>>
    /\ next_comment = NoComment
    /\ aborted = FALSE
    /\ returned = FALSE
    /\ outcomes = <<>>

\* a writer that is never written to
WriterIdle ==
    /\ auto_flush = TRUE
    /\ auto_discovery = TRUE
    /\ buffer = <<>>
    /\ written = <<>>
    /\ discovery_written = FALSE
    /\ sink = <<>>
    /\ closed = FALSE
    /\ flush_raised = "none"
    /\ writeLog = <<>>
    /\ nflush = 0
    /\ nexplicit = 0
    /\ writesAtFirstFlush = 0 - 1

Init ==
    WriterInit /\ ReaderIdle /\ CommentIdle /\ ParseIdle /\ ConvertIdle /\ IndexIdle

\* one MPCWriter and its client
Spec == Init /\ [][Next]_vars

RInit ==
    ReaderInit /\ WriterIdle /\ CommentIdle /\ ParseIdle /\ ConvertIdle /\ IndexIdle

\* one call of MPCReader.read
ReaderSpec == RInit /\ [][RNext]_vars

CInit ==
    CommentIdle /\ WriterIdle /\ ReaderIdle /\ ParseIdle /\ ConvertIdle /\ IndexIdle

\* one survey comment and its client
CommentSpec == CInit /\ [][CNext]_vars

PInit ==
    ParseInit /\ WriterIdle /\ ReaderIdle /\ CommentIdle /\ ConvertIdle /\ IndexIdle

\* one line parsed, rendered and parsed again
ParseSpec == PInit /\ [][PNext]_vars

HInit ==
    ConvertInit /\ WriterIdle /\ ReaderIdle /\ CommentIdle /\ ParseIdle /\ IndexIdle

\* one converter on one file, and direct calls of make_tnodb_header
ConvertSpec == HInit /\ [][HNext]_vars

IInit ==
    IndexInit /\ WriterIdle /\ ReaderIdle /\ CommentIdle /\ ParseIdle /\ ConvertIdle

\* one Index built from one side table
IndexSpec == IInit /\ [][INext]_vars

\* ------------------------------------------------------- writer properties
SinkIdx == 1..Len(sink)

\* the positions of the sink whose line renders the marker m
LinesMarked(m) == {i \in SinkIdx : sink[i].mark = m}

\* the positions of the sink whose line is for the date d
LinesOf(snk, d) == {i \in 1..Len(snk) : snk[i].date = d}

\* the number of write() calls made for the date d
WriteCount(log, d) == Cardinality({i \in 1..Len(log) : log[i] = d})

\* the most recent write() call made for the date d
LastWrite(log, d) ==
    CHOOSE i \in 1..Len(log) :
        log[i] = d /\ \A j \in 1..Len(log) : log[j] = d => j <= i

\* C1: with auto_discovery enabled, at most one line of the sink renders
\* the initial-discovery marker `*`, whatever was written and flushed.
C1_AtMostOneInitial ==
    auto_discovery => Cardinality(LinesMarked("*")) <= 1

\* a line renders `*` and a later line, written over several flushes, does not
C1_Witness ==
    /\ auto_discovery
    /\ nflush >= 2
    /\ \E i, j \in SinkIdx : i < j /\ sink[i].mark = "*" /\ sink[j].mark = "&"

\* C2: with auto_discovery enabled the first non-null line of the sink
\* renders `*`, and no null line and no later line does.
C2_InitialIsFirstNonNull ==
    auto_discovery =>
        \A i \in SinkIdx :
            LET firstNonNull == ~sink[i].null /\
                                \A j \in 1..(i - 1) : sink[j].null
            IN  (sink[i].mark = "*") <=> firstNonNull

\* C3 as claimed: in every configuration, a flush that follows two writes of
\* one time key leaves exactly one line for the key, and it shows the record
\* written last.
C3_LastWriteWinsAlways ==
    [][nflush' > nflush =>
         \A d \in Dates :
             WriteCount(writeLog', d) >= 2 =>
                 /\ Cardinality(LinesOf(sink', d)) = 1
                 /\ \A i \in LinesOf(sink', d) :
                        sink'[i].id = LastWrite(writeLog', d)]_vars

\* C3 as amended: a flush that follows two writes of one time key leaves at
\* most one line for the key, and a line that this flush emits for the key
\* shows the record written last.
C3_LastWriteWinsUnlessEmitted ==
    [][nflush' > nflush =>
         \A d \in Dates :
             WriteCount(writeLog', d) >= 2 =>
                 /\ Cardinality(LinesOf(sink', d)) <= 1
                 /\ \A i \in LinesOf(sink', d) \ LinesOf(sink, d) :
                        sink'[i].id = LastWrite(writeLog', d)]_vars

\* two records of one date were buffered, and the line shows the second
C3_Witness ==
    /\ ~auto_flush
    /\ \E d \in Dates :
          /\ WriteCount(writeLog, d) >= 2
          /\ \E i \in LinesOf(sink, d) :
                sink[i].id = LastWrite(writeLog, d) /\ sink[i].id >= 2

\* C4: the sink never holds two lines for the same Julian Day.
C4_OneLinePerDay ==
    \A i, j \in SinkIdx : i # j => Jd(sink[i].date) # Jd(sink[j].date)

\* a day was written twice, flushed more than once, and has its line
C4_Witness ==
    /\ nflush >= 2
    /\ \E d \in Dates :
          WriteCount(writeLog, d) >= 2 /\ LinesOf(sink, d) # {}

\* C5: the lines of one flush are in strictly increasing time order, and with
\* auto_flush disabled and every write made before the first flush the whole
\* sink is.
C5_FlushIsChronological ==
    /\ \A i, j \in SinkIdx :
          (i < j /\ sink[i].flush = sink[j].flush) =>
              Mjd(sink[i].date) < Mjd(sink[j].date)
    /\ (~auto_flush /\ writesAtFirstFlush = Len(writeLog)) =>
          \A i, j \in SinkIdx : i < j => Mjd(sink[i].date) < Mjd(sink[j].date)

\* one flush emitted two lines whose records were written latest date first
C5_Witness ==
    /\ ~auto_flush
    /\ writesAtFirstFlush = Len(writeLog)
    /\ \E i, j \in SinkIdx :
          /\ i < j
          /\ sink[i].flush = sink[j].flush
          /\ sink[i].id > sink[j].id

\* C6: the first discovery-marked line of the sink renders `*` and every
\* discovery-marked line after it renders `&`.
C6_FirstMarkedIsInitial ==
    \A i \in SinkIdx :
        sink[i].mark \in {"*", "&"} =>
            IF \A j \in 1..(i - 1) : sink[j].mark = " "
            THEN sink[i].mark = "*"
            ELSE sink[i].mark = "&"

\* C7: once close() has returned, every date passed to write() has a line.
C7_ClosedMeansFlushed ==
    closed => \A k \in 1..Len(writeLog) : LinesOf(sink, writeLog[k]) # {}

\* C8: a flush that only meets days that were emitted before writes no line
\* and leaves the discovery-written state as it was.
C8_ReflushIsNoOp ==
    [][(nflush' > nflush /\
        \A k \in DOMAIN buffer' : ~NotYetWritten(Jd(buffer'[k].date), written))
          => (sink' = sink /\ discovery_written' = discovery_written)]_vars

\* ------------------------------------------------------- reader properties
\* is a record produced for the line l
Produces(l) ==
    /\ ~l.hash
    /\ l.corelen = 80
    /\ l.fields = "ok"
    /\ MPCCommentFromString(l.txt).res # "raise"
    /\ ~(MPCCommentFromString(l.txt).kind = "TNOdb" /\ l.txt.flag1 = "")

\* the positions of the lines for which a record is produced, in order
RECURSIVE ProducedFrom(_, _)
ProducedFrom(ls, n) ==
    IF n > Len(ls) THEN <<>>
    ELSE IF Produces(ls[n]) THEN <<n>> \o ProducedFrom(ls, n + 1)
    ELSE ProducedFrom(ls, n + 1)

\* C9: read() never aborts, and the records it has built are those of the
\* valid data lines gone through so far, in input order.
C9_ReaderNeverAborts ==
    /\ ~aborted
    /\ [k \in 1..Len(mpc_observations) |-> mpc_observations[k].res]
          = ProducedFrom(lines, 1)

\* read() returned a record for a data line that follows a raising line and
\* a rejected line
C9_Witness ==
    /\ returned
    /\ \E i, j, k \in 1..Len(lines) :
          /\ i < k /\ j < k
          /\ ~lines[i].hash /\ lines[i].corelen = 80 /\ ~Produces(lines[i])
          /\ ~lines[j].hash /\ lines[j].corelen # 80
          /\ \E n \in 1..Len(mpc_observations) : mpc_observations[n].res = k

\* C10: a record built from a data line with an inline comment keeps that
\* comment, also when a comment line precedes it.
C10_InlineCommentKept ==
    \A n \in 1..Len(mpc_observations) :
        LET l == lines[mpc_observations[n].res]
        IN  MPCCommentFromString(l.txt).tag # "" =>
                mpc_observations[n].comment = MPCCommentFromString(l.txt)

LineIdx == 1..Len(lines)

\* a valid 80-column data line without an inline comment
PlainDataLine(l) ==
    ~l.hash /\ l.corelen = 80 /\ l.fields = "ok" /\ l.txt = TxtEmpty

\* the record built for the line at position i, as a set
RecordsOf(i) ==
    {n \in 1..Len(mpc_observations) : mpc_observations[n].res = i}

\* C11: when a comment line is immediately followed by a valid data line
\* without an inline comment, the record of the data line carries what the
\* dispatcher returned for the comment line, whichever variant that is; and
\* two records carry the same held comment only if a comment line with that
\* parse lies between their lines.
C11_CommentLineAttached ==
    /\ \A i \in LineIdx :
          (/\ i + 1 \in LineIdx
           /\ lines[i].hash
           /\ outcomes[i].res \in {"comment", "str"}
           /\ PlainDataLine(lines[i + 1]))
          => \E n \in RecordsOf(i + 1) :
                mpc_observations[n].comment = outcomes[i]
    /\ \A n, m \in 1..Len(mpc_observations) :
          (/\ n < m
           /\ mpc_observations[n].comment = mpc_observations[m].comment
           /\ PlainDataLine(lines[mpc_observations[n].res])
           /\ PlainDataLine(lines[mpc_observations[m].res])
           /\ mpc_observations[n].comment.tag # "")
          => \E i \in LineIdx :
                /\ mpc_observations[n].res < i
                /\ i < mpc_observations[m].res
                /\ lines[i].hash
                /\ outcomes[i] = mpc_observations[m].comment

\* the first column of Observation.to_mpc
ToMpcFirstColumn(obs) == NullObservationStr(obs.null, "#")

\* C12: a data line whose first column is one of the sentinels `!`, `-`, `#`
\* parses to a record with null_observation true, and the to_mpc rendering
\* of a null record parses back to a record.
C12_SentinelsParseAsNull ==
    /\ \A i \in LineIdx :
          (lines[i].data /\ lines[i].first \in NULL_OBSERVATION_CHARACTERS)
          => (outcomes[i].res = "obs" /\ outcomes[i].null)
    /\ \A n \in 1..Len(mpc_observations) :
          mpc_observations[n].null =>
              ObservationFromString(
                  NullDataLine(ToMpcFirstColumn(mpc_observations[n]))).res
                = "obs"

\* C13: the comment dispatcher never raises: every comment line yields a
\* parsed variant or the string itself.
C13_DispatcherTotal ==
    \A i \in LineIdx :
        lines[i].hash =>
            (outcomes[i].res \in {"comment", "str"} /\
             (outcomes[i].res = "str" => outcomes[i].tag = lines[i].txt.tag))

\* the result of the first decoder of funcs whose own parse does not raise
RECURSIVE FirstSucceeding(_, _)
FirstSucceeding(funcs, txt) ==
    IF funcs = <<>> THEN ReturnedStr(txt.tag)
    ELSE IF Decode(Head(funcs), txt).res # "raise"
         THEN Decode(Head(funcs), txt)
         ELSE FirstSucceeding(Tail(funcs), txt)

\* C14: what the dispatcher gives for a comment line is the result of the
\* first decoder, in the fixed order, whose parse succeeds.
C14_FirstSuccessfulDecoder ==
    \A i \in LineIdx :
        lines[i].hash =>
            outcomes[i] = FirstSucceeding(
                <<"TNOdb", "OSSOS", "RealOSSOS", "CFEPS", "str">>,
                lines[i].txt)

\* C17: from_string on a data line whose core is not 80 columns returns None
\* and does not raise, whatever the columns hold.
C17_ShortLineRejected ==
    \A i \in LineIdx :
        (~lines[i].hash /\ lines[i].corelen # 80) => outcomes[i] = NoComment

\* a 79-column line whose fields no setter accepts was gone through
C17_Witness ==
    \E i \in LineIdx :
        /\ ~lines[i].hash
        /\ lines[i].corelen = 79
        /\ lines[i].fields # "ok"
        /\ outcomes[i].res = "none"

\* ------------------------------------------------ comment object properties
\* C18: the magnitude setter, called with a value outside the open range
\* (15, 30) or with a value that is not a number, leaves the note 'Z' and
\* the magnitude unset; called with a value strictly inside the range it
\* stores the value and leaves the note 'Y'.
C18_MagSetterChecksRange ==
    last_call.op = "mag" =>
        IF last_call.m.lit = "num" /\ 1500 < last_call.m.val
                                   /\ last_call.m.val < 3000
        THEN mag = last_call.m /\ photometry_note = "Y"
        ELSE mag = None /\ photometry_note = "Z"

\* the setter was called with 35.00 on a comment holding a magnitude
C18_Witness ==
    /\ last_call.op = "mag"
    /\ last_call.m = Num(3500)
    /\ mag = None
    /\ photometry_note = "Z"
    /\ mag_uncertainty # None

\* C19: the constructor leaves a comment on which a magnitude that is set
\* implies that the note is 'Y', and a call of the magnitude setter or of
\* the magnitude-uncertainty setter on such a comment leaves such a comment.
C19_MagSetImpliesNoteY ==
    [][(/\ last_call'.op \in {"init", "mag", "mag_uncertainty"}
        /\ ncalls' = ncalls + 1
        /\ comment_built'
        /\ comment_built => (mag # None => photometry_note = "Y"))
       => (mag' # None => photometry_note' = "Y")]_vars

\* C20: a magnitude uncertainty outside the open interval (0, 1), given to
\* the constructor or to the setter, raises an error that reaches the
\* caller, as an astrometric level outside [0, 9] does.
C20_UncertaintyOutOfRangeRaises ==
    /\ (/\ last_call.op \in {"init", "mag_uncertainty"}
        /\ last_call.u.lit = "num"
        /\ ~(0 < last_call.u.val /\ last_call.u.val < 100))
       => last_call.raised # "none"
    /\ (/\ last_call.op \in {"init", "astrometric_level"}
        /\ last_call.a.lit = "num"
        /\ ~(0 <= last_call.a.val /\ last_call.a.val <= 9))
       => last_call.raised # "none"

\* ------------------------------------------------------ round-trip properties
\* the listed fields of two records are equal
SameFields(a, b) ==
    /\ a.name = b.name
    /\ a.disc = b.disc /\ a.init = b.init
    /\ a.date = b.date /\ a.date_precision = b.date_precision
    /\ a.ra = b.ra /\ a.ra_precision = b.ra_precision
    /\ a.dec = b.dec /\ a.dec_precision = b.dec_precision
    /\ a.mag = b.mag
    /\ a.band = b.band
    /\ a.code = b.code
    /\ a.comment = b.comment

\* the record is as from_string built it, but for its name
AsBuilt ==
    [obsrec EXCEPT !.name = input_line.name] =
        [Obsrec(input_line) EXCEPT !.name = input_line.name]

\* C15: a record built by from_string from a valid line with a standard
\* comment, and not assigned to since but for its name, renders with
\* to_string, and from_string of the rendering is a record equal to it in
\* every field, the stored precisions of date, RA and DEC included.
C15_RoundTrip ==
    (input_line.res = "line" /\ input_line.txt = TxtFixed /\ AsBuilt) =>
        /\ pstep = "rendered" => as_string.res = "line"
        /\ pstep = "reparsed" =>
              obsrec2.res = "obs" /\ SameFields(obsrec2, obsrec)

\* C16: the stored RA, DEC and date precisions of a record built from a
\* data line, and not assigned to since but for its name, are the digit
\* counts of the literal RA, DEC and date columns.
C16_PrecisionFromLiteral ==
    (pstep \in {"parsed", "renamed", "rendered", "reparsed"} /\ AsBuilt) =>
        /\ obsrec.ra_precision = input_line.ra.digits
        /\ obsrec.dec_precision = input_line.dec.digits
        /\ obsrec.date_precision = input_line.date.digits

\* -------------------------------------------- writer properties, continued
\* the key of the buffer that holds the record with identity id, if any
HeldAs(buf, id) == {k \in DOMAIN buf : buf[k].id = id}

\* C27: the sink is only appended to, and a flush appends no line for a day
\* that already has one, so a line emitted by an earlier flush stays where
\* it is although a later flush emits a line with an earlier date.
C27_SinkIsAppendOnly ==
    [][/\ Len(sink') >= Len(sink)
       /\ \A i \in 1..Len(sink) : sink'[i] = sink[i]
       /\ \A i \in (Len(sink) + 1)..Len(sink') :
             LinesOf(sink, sink'[i].date) = {}]_vars

\* with auto_flush, a later flush emitted a line dated before a line of an
\* earlier flush, which is still in front of it
C27_Witness ==
    /\ auto_flush
    /\ \E i, j \in SinkIdx :
          /\ i < j
          /\ sink[i].flush < sink[j].flush
          /\ Mjd(sink[i].date) > Mjd(sink[j].date)

\* the flush that walks buf is left by an exception at a record dated
\* before key: a day with no line yet whose record the formatter rejects,
\* or which is to be written to a closed file
StopsBefore(buf, wr, isclosed, key) ==
    \E k \in DOMAIN buf :
        /\ k < key
        /\ \A j \in 1..Len(wr) : wr[j] # Jd(buf[k].date)
        /\ ~buf[k].renders \/ isclosed

\* C29 as claimed: every flush after a record was emitted as the initial
\* discovery processes the record again: the record held in the buffer
\* renders `&` while its line in the sink still renders `*`.
C29_EveryLaterFlushDowngrades ==
    [][nflush' > nflush =>
          \A i \in SinkIdx :
              sink[i].mark = "*" =>
                  /\ sink'[i].mark = "*"
                  /\ \A k \in HeldAs(buffer', sink[i].id) :
                         DiscoveryStr(buffer'[k]) = "&"]_vars

\* C29 as amended: a flush after a record was emitted as the initial
\* discovery keeps the `*` line in the sink; if it gets as far as the record
\* the record held in the buffer renders `&` from then on, and if an
\* exception at an earlier-dated record ends it first the record is left as
\* it was.
C29_EmittedInitialIsDowngraded ==
    [][nflush' > nflush =>
          \A i \in SinkIdx :
              sink[i].mark = "*" =>
                  /\ sink'[i].mark = "*"
                  /\ \A k \in HeldAs(buffer', sink[i].id) :
                         IF StopsBefore(buffer', written, closed, k)
                         THEN k \in DOMAIN buffer /\ buffer'[k] = buffer[k]
                         ELSE DiscoveryStr(buffer'[k]) = "&"]_vars

\* a record was emitted as `*`, flushed again, and is held as `&`
C29_Witness ==
    \E i \in SinkIdx :
        /\ sink[i].mark = "*"
        /\ nflush > sink[i].flush
        /\ \E k \in HeldAs(buffer, sink[i].id) :
              DiscoveryStr(buffer[k]) = "&"

\* C30: in every step in which the discovery-written state goes from false
\* to true, a line of a discovery-marked record is appended to the sink.
C30_SlotConsumedByEmittedLine ==
    [][(~discovery_written /\ discovery_written') =>
          \E i \in (Len(sink) + 1)..Len(sink') : sink'[i].mark \in {"*", "&"}]_vars

\* C28: a comment line whose text starts with the token `L` and is not a
\* database-internal line parses as the legacy-survey variant, whatever
\* follows the frame id.
C28_LeadingLIsLegacy ==
    \A i \in LineIdx :
        (/\ lines[i].hash
         /\ lines[i].txt.body.toks # <<>>
         /\ Head(lines[i].txt.body.toks) = "L"
         /\ ~(lines[i].txt.len56 /\ lines[i].txt.index))
        => (outcomes[i].res = "comment" /\ outcomes[i].kind = "CFEPS")

\* C26: the 80-column part of every rendering is exactly 80 columns wide,
\* for a name of more than 7 characters and for a name put in by the
\* reader's override as well.
C26_StrIsEightyColumns ==
    as_string.res = "line" => as_string.width = 80

\* ------------------------------------------------- run header properties
\* the names of a non-empty list joined with ", " and a final " and "
RECURSIVE Joined(_)
Joined(observers) ==
    IF Len(observers) = 1 THEN <<observers[1]>>
    ELSE IF Len(observers) = 2
    THEN <<observers[1], " and ", observers[2]>>
    ELSE <<observers[1], ", ">> \o Joined(Tail(observers))

\* C24: for a non-empty observer list the OBS line names every observer
\* once, in order, joined with ", " and a final " and "; a single observer
\* gives a line naming that observer.
C24_ObsLineNamesEveryObserver ==
    header_observers # <<>> => header_obs = Joined(header_observers)

\* the positions of the file whose line parses to a record
RecordsIn(ls) == {i \in 1..Len(ls) : ObservationFromString(ls[i]).res = "obs"}

\* C25: once convert() has been called on a file holding lines that do not
\* parse to a record (short lines, comment lines), it has completed and
\* the output holds the header once, in front, and the database-internal
\* rendering of every record of the file.
C25_ConvertIsBestEffort ==
    (/\ nconvert >= 1
     /\ \A i \in 1..Len(infile) :
           ObservationFromString(infile[i]).res \in {"obs", "none", "comment"}
     /\ \E i \in 1..Len(infile) :
           ObservationFromString(infile[i]).res \in {"none", "comment"})
    => /\ convert_raised = "none"
       /\ outfile # <<>>
       /\ outfile[1].kind = "header"
       /\ \A j \in 2..Len(outfile) : outfile[j].kind = "tnodb"
       /\ {outfile[j].line : j \in 2..Len(outfile)} = RecordsIn(infile)

\* ------------------------------------------------------- Index properties
\* the names listed in the row r of the side table
RowNames(r) == {r[i] : i \in 1..Len(r)}

\* the canonical names whose alias group holds the name n
GroupsOf(n) ==
    {k \in DOMAIN index : \E i \in 1..Len(index[k]) : index[k][i] = n}

\* C21: for any two names a, b listed in one row of the side table,
\* is_same(a, b), is_same(b, a) and is_same(a, a) are true, also when a name
\* occurs in more than one row.
C21_AliasSymmetry ==
    idx_built =>
        \A r \in 1..Len(idx_rows) :
            \A a, b \in RowNames(idx_rows[r]) :
                /\ is_same(names, index, a, b)
                /\ is_same(names, index, b, a)
                /\ is_same(names, index, a, a)

\* C22: every name the Index knows, the empty name included, is in exactly
\* one alias group, and the reverse mapping sends it to the canonical name
\* of that group.
C22_OneGroupPerName ==
    idx_built =>
        \A n \in DOMAIN names : GroupsOf(n) = {names[n]}

\* C23: for a name the Index does not know, is_same(name, b) is true exactly
\* when b is that name; for a known name get_aliases gives the group with
\* the canonical name first.
C23_UnknownNameIsItsOwnGroup ==
    idx_built =>
        \A a \in IndexNames :
            IF a \notin DOMAIN names
            THEN \A b \in IndexNames :
                    is_same(names, index, a, b) <=> (b = a)
            ELSE /\ get_aliases(names, index, a).known
                 /\ Head(get_aliases(names, index, a).list) = names[a]

====
